---- MODULE Spec2Model ----
(***************************************************************************)
(* Model of src/main.py: the InferenceThread worker (command queue, stream *)
(* state kept in the local `stream`, cooperative shutdown through          *)
(* _should_quit), the Dialog controller and main().                        *)
(*                                                                         *)
(* The deepspeech engine is external.  Each engine call is a step of its   *)
(* own that either returns or raises; an exception that leaves run() ends  *)
(* the worker thread.                                                      *)
(***************************************************************************)
EXTENDS Integers, Sequences, FiniteSets, TLC

\* Bound on the number of commands the producer enqueues in one behaviour.
MaxCmds == 4

\* Bound on the number of chunks in one span of the two-span producer.
MaxSpanLen == 2

\* None: the value of `stream` while no stream is open (main.py:47, 73).
None == 0

\* Size in bytes of one np.int16 item (main.py:68).
ItemSize == 2

\* A queue that holds at most two commands.
maxsize_bounded == 2

\* maxsize of queue.Queue() as built on main.py:28: 0, no upper limit.
maxsize == 0

\* Audio buffers (bytes) the producer may hand to send_cmd: two well-formed
\* 16-bit little-endian buffers and one of odd length.
Chunks == {<<0, 0>>, <<1, 128>>, <<255>>}

\* The command tuples of main.py:115, 121, 131.
CmdStart == <<"start">>
CmdFinish == <<"finish">>
CmdData(b) == <<"data", b>>
Cmds == {CmdStart, CmdFinish} \cup {CmdData(b) : b \in Chunks}

VARIABLES
    in_queue,      \* self._in_queue: commands put and not yet got
    should_quit,   \* self._should_quit
    wpc,           \* position of the worker thread in run()
    cmd,           \* run(): the command being processed, <<>> if none
    stream,        \* run(): local `stream`, None or a stream handle
    fed,           \* engine: fed[h] = sample arrays fed to handle h, in order
    finalized,     \* engine: handles passed to a finishStream that returned
    emitted,       \* finished.emit calls, in order
    mpc,           \* position of the main thread in main()
    is_recording,  \* Dialog._is_recording
    enqueued,      \* history: every command passed to send_cmd, in order
    consumed,      \* history: every command returned by _in_queue.get
    startPos,      \* history: startPos[h] = index in consumed of h's 'start'
    quitMark,      \* history: Len(enqueued) when set_quit ran, -1 before
    inCall         \* engine: number of stream calls entered and not yet left

vars == <<in_queue, should_quit, wpc, cmd, stream, fed, finalized, emitted,
          mpc, is_recording, enqueued, consumed, startPos, quitMark, inCall>>

workerVars == <<wpc, cmd, stream, fed, finalized, emitted, consumed, startPos,
                inCall>>
mainVars == <<mpc, is_recording>>

\* ---------------------------------------------------------------- helpers

\* Two's-complement reading of an unsigned 16-bit value.
ToInt16(u) == IF u >= 32768 THEN u - 65536 ELSE u

\* np.frombuffer(b, np.int16) on a little-endian host: pairs of bytes, low
\* byte first.  Defined only when Len(b) is a multiple of ItemSize.
frombuffer(b) ==
    [i \in 1..(Len(b) \div ItemSize) |-> ToInt16(b[2 * i - 1] + 256 * b[2 * i])]

\* np.frombuffer raises ValueError unless the size is a multiple of the item.
frombuffer_ok(b) == Len(b) % ItemSize = 0

\* put as a stack would do it: the new command goes to the front.
put_front(q, c) == <<c>> \o q

\* queue.Queue.put: append at the tail.
put(q, c) == Append(q, c)

\* queue.Queue.put returns at once unless the queue has a positive maxsize
\* and already holds that many items; then it waits for a free slot.
put_ok(q) == maxsize <= 0 \/ Len(q) < maxsize

\* queue.Queue.get: the item returned and the queue left behind.
get_item(q) == Head(q)
get_rest(q) == Tail(q)

\* The transcript the engine returns for a handle: a function of exactly
\* the sample arrays fed to it.
Transcript(h) == IF h = None THEN <<>> ELSE fed[h]

\* The thread has left run(), by break or by an exception.
Terminated == wpc \in {"done", "crashed", "ctor_failed"}

\* ------------------------------------------------------------------- Init

Init ==
    /\ in_queue = <<>>
    /\ should_quit = FALSE
    /\ wpc = "not_started"
    /\ cmd = <<>>
    /\ stream = None
    /\ fed = <<>>
    /\ finalized = {}
    /\ emitted = <<>>
    /\ mpc = "created"
    /\ is_recording = FALSE
    /\ enqueued = <<>>
    /\ consumed = <<>>
    /\ startPos = <<>>
    /\ quitMark = -1
    /\ inCall = 0

\* --------------------------------------------------- InferenceThread API

\* send_cmd(c): self._in_queue.put(c).
send_cmd(c) ==
    /\ put_ok(in_queue)
    /\ in_queue' = put(in_queue, c)
    /\ enqueued' = Append(enqueued, c)

\* A set_quit that also throws away the commands still queued.
set_quit_flush ==
    /\ should_quit' = TRUE
    /\ quitMark' = IF quitMark = -1 THEN Len(enqueued) ELSE quitMark
    /\ in_queue' = <<>>

\* set_quit(): self._should_quit = True; the queue is not touched.
set_quit ==
    /\ should_quit' = TRUE
    /\ quitMark' = IF quitMark = -1 THEN Len(enqueued) ELSE quitMark
    /\ in_queue' = in_queue

\* start(): self._worker.start(); the thread enters run().
start ==
    /\ wpc = "not_started"
    /\ wpc' = "construct"
    /\ UNCHANGED <<cmd, stream, fed, finalized, emitted, consumed, startPos,
                   inCall>>

\* ----------------------------------------------------- InferenceThread.run

\* A run() that builds its queue itself, next to the engine.
run_construct_newqueue ==
    /\ wpc = "construct"
    /\ \E ok \in BOOLEAN :
          wpc' = IF ok THEN "get" ELSE "ctor_failed"
    /\ stream' = None
    /\ in_queue' = <<>>
    /\ UNCHANGED <<should_quit, cmd, fed, finalized, emitted,
                   consumed, startPos, enqueued, quitMark, mpc, is_recording,
                   inCall>>

\* Lines 45-47: build the Model and enable the decoder; either call may
\* raise, which ends the thread before the loop is entered.
run_construct ==
    /\ wpc = "construct"
    /\ \E ok \in BOOLEAN :
          wpc' = IF ok THEN "get" ELSE "ctor_failed"
    /\ stream' = None
    /\ UNCHANGED <<in_queue, should_quit, cmd, fed, finalized, emitted,
                   consumed, startPos, enqueued, quitMark, mpc, is_recording,
                   inCall>>

\* dispatch without the `if stream:` test of line 67.
dispatch_unguarded(c, s) ==
    IF c[1] = "data" /\ ~frombuffer_ok(c[2]) THEN "crashed" ELSE "call"

\* Where the if/elif chain of lines 62-71 takes the worker for command c
\* with local stream s: into an engine call, back to the queue, or out of
\* run() through np.frombuffer's ValueError.
dispatch(c, s) ==
    IF c[1] = "start" THEN "call"
    ELSE IF c[1] = "data"
         THEN IF s # None
              THEN IF frombuffer_ok(c[2]) THEN "call" ELSE "crashed"
              ELSE "get"
    ELSE IF c[1] = "finish" THEN "call"
    ELSE "get"

\* A worker that hands the engine call to another thread and goes
\* straight back to the queue.
run_get_async ==
    /\ wpc = "get"
    /\ in_queue # <<>>
    /\ cmd' = get_item(in_queue)
    /\ in_queue' = get_rest(in_queue)
    /\ consumed' = Append(consumed, get_item(in_queue))
    /\ wpc' = IF dispatch(get_item(in_queue), stream) = "crashed"
              THEN "crashed" ELSE "get"
    /\ inCall' = IF dispatch(get_item(in_queue), stream) = "call"
                 THEN inCall + 1 ELSE inCall
    /\ UNCHANGED <<should_quit, stream, fed, finalized, emitted, startPos,
                   enqueued, quitMark, mpc, is_recording>>

\* Line 54: get returned a command; lines 62-71 up to the engine call.
run_get ==
    /\ wpc = "get"
    /\ in_queue # <<>>
    /\ cmd' = get_item(in_queue)
    /\ in_queue' = get_rest(in_queue)
    /\ consumed' = Append(consumed, get_item(in_queue))
    /\ wpc' = dispatch(get_item(in_queue), stream)
    /\ inCall' = IF dispatch(get_item(in_queue), stream) = "call"
                 THEN inCall + 1 ELSE inCall
    /\ UNCHANGED <<should_quit, stream, fed, finalized, emitted, startPos,
                   enqueued, quitMark, mpc, is_recording>>

\* Lines 54-55: get timed out on an empty queue and raised queue.Empty.
run_timeout ==
    /\ wpc = "get"
    /\ in_queue = <<>>
    /\ wpc' = "check_quit"
    /\ UNCHANGED <<in_queue, should_quit, cmd, stream, fed, finalized,
                   emitted, consumed, startPos, enqueued, quitMark, mpc,
                   is_recording, inCall>>

\* A quit check that never looks at the flag.
run_check_quit_blind ==
    /\ wpc = "check_quit"
    /\ wpc' = "get"
    /\ UNCHANGED <<in_queue, should_quit, cmd, stream, fed, finalized,
                   emitted, consumed, startPos, enqueued, quitMark, mpc,
                   is_recording, inCall>>

\* Lines 56-60: break if the flag is set, else poll again.
run_check_quit ==
    /\ wpc = "check_quit"
    /\ wpc' = IF should_quit THEN "done" ELSE "get"
    /\ UNCHANGED <<in_queue, should_quit, cmd, stream, fed, finalized,
                   emitted, consumed, startPos, enqueued, quitMark, mpc,
                   is_recording, inCall>>

\* A 'start' that opens a stream only the first time and afterwards hands
\* back the first stream again.
setupStream_reuse ==
    /\ wpc = "call"
    /\ cmd[1] = "start"
    /\ stream' = 1
    /\ fed' = IF fed = <<>> THEN <<<<>>>> ELSE fed
    /\ startPos' = IF fed = <<>> THEN <<Len(consumed)>> ELSE startPos
    /\ wpc' = "get"
    /\ UNCHANGED <<in_queue, should_quit, cmd, finalized, emitted, consumed,
                   enqueued, quitMark, mpc, is_recording>>
    /\ inCall' = inCall - 1

\* A 'start' that opens a new stream but keeps using the one it had.
setupStream_keep ==
    /\ wpc = "call"
    /\ cmd[1] = "start"
    /\ stream' = IF stream # None THEN stream ELSE Len(fed) + 1
    /\ fed' = Append(fed, <<>>)
    /\ startPos' = Append(startPos, Len(consumed))
    /\ wpc' = "get"
    /\ UNCHANGED <<in_queue, should_quit, cmd, finalized, emitted, consumed,
                   enqueued, quitMark, mpc, is_recording>>
    /\ inCall' = inCall - 1

\* Line 64: model.setupStream() returned a new handle.
setupStream_return ==
    /\ wpc = "call"
    /\ cmd[1] = "start"
    /\ stream' = Len(fed) + 1
    /\ fed' = Append(fed, <<>>)
    /\ startPos' = Append(startPos, Len(consumed))
    /\ wpc' = "get"
    /\ UNCHANGED <<in_queue, should_quit, cmd, finalized, emitted, consumed,
                   enqueued, quitMark, mpc, is_recording>>
    /\ inCall' = inCall - 1

\* A feed that loses every chunk after the first one of a stream.
feedAudioContent_lossy ==
    /\ wpc = "call"
    /\ cmd[1] = "data"
    /\ fed' = [fed EXCEPT ![stream] =
                  IF @ = <<>> THEN <<frombuffer(cmd[2])>> ELSE @]
    /\ wpc' = "get"
    /\ UNCHANGED <<in_queue, should_quit, cmd, stream, finalized, emitted,
                   consumed, startPos, enqueued, quitMark, mpc, is_recording>>
    /\ inCall' = inCall - 1

\* Line 68: model.feedAudioContent(stream, samples) returned.
feedAudioContent_return ==
    /\ wpc = "call"
    /\ cmd[1] = "data"
    /\ fed' = [fed EXCEPT ![stream] = Append(@, frombuffer(cmd[2]))]
    /\ wpc' = "get"
    /\ UNCHANGED <<in_queue, should_quit, cmd, stream, finalized, emitted,
                   consumed, startPos, enqueued, quitMark, mpc, is_recording>>
    /\ inCall' = inCall - 1

\* A finish that emits the transcript only when something was fed.
finishStream_silent ==
    /\ wpc = "call"
    /\ cmd[1] = "finish"
    /\ finalized' = IF stream = None THEN finalized ELSE finalized \cup {stream}
    /\ emitted' = IF Transcript(stream) = <<>> THEN emitted
                  ELSE Append(emitted, [h |-> stream,
                                        text |-> Transcript(stream),
                                        pos |-> Len(consumed)])
    /\ stream' = None
    /\ wpc' = "get"
    /\ UNCHANGED <<in_queue, should_quit, cmd, fed, consumed, startPos,
                   enqueued, quitMark, mpc, is_recording>>
    /\ inCall' = inCall - 1

\* A finish that emits the transcript but keeps the stream.
finishStream_keep ==
    /\ wpc = "call"
    /\ cmd[1] = "finish"
    /\ finalized' = IF stream = None THEN finalized ELSE finalized \cup {stream}
    /\ emitted' = Append(emitted, [h |-> stream, text |-> Transcript(stream),
                                   pos |-> Len(consumed)])
    /\ stream' = stream
    /\ wpc' = "get"
    /\ UNCHANGED <<in_queue, should_quit, cmd, fed, consumed, startPos,
                   enqueued, quitMark, mpc, is_recording>>
    /\ inCall' = inCall - 1

\* Lines 71-73: model.finishStream(stream) returned; emit the transcript
\* and forget the stream.  With stream = None the engine is handed no
\* handle; if it returns at all, nothing is finalized.
finishStream_return ==
    /\ wpc = "call"
    /\ cmd[1] = "finish"
    /\ finalized' = IF stream = None THEN finalized ELSE finalized \cup {stream}
    /\ emitted' = Append(emitted, [h |-> stream, text |-> Transcript(stream),
                                   pos |-> Len(consumed)])
    /\ stream' = None
    /\ wpc' = "get"
    /\ UNCHANGED <<in_queue, should_quit, cmd, fed, consumed, startPos,
                   enqueued, quitMark, mpc, is_recording>>
    /\ inCall' = inCall - 1

\* Lines 64, 68, 71: the engine call raised.  Nothing in run() catches it,
\* so the exception leaves run() and the thread ends.
engine_raise ==
    /\ wpc = "call"
    /\ wpc' = "crashed"
    /\ UNCHANGED <<in_queue, should_quit, cmd, stream, fed, finalized,
                   emitted, consumed, startPos, enqueued, quitMark, mpc,
                   is_recording>>
    /\ inCall' = inCall - 1

Worker ==
    \/ run_construct
    \/ run_get
    \/ run_timeout
    \/ run_check_quit
    \/ setupStream_return
    \/ feedAudioContent_return
    \/ finishStream_return
    \/ engine_raise

\* ------------------------------------------- a producer driving the API

\* The producers of a behaviour enqueue at most MaxCmds commands.
Budget == Len(enqueued) < MaxCmds

\* Any thread calling send_cmd with any command.
Send ==
    /\ Budget
    /\ \E c \in Cmds : send_cmd(c)
    /\ UNCHANGED <<should_quit, quitMark, workerVars, mainVars>>

\* The thread is started once (main.py:155).
Start ==
    /\ start
    /\ UNCHANGED <<in_queue, should_quit, enqueued, quitMark, mainVars>>

\* Shutdown is requested once, after the thread was started (main.py:155-161).
Quit ==
    /\ wpc # "not_started"
    /\ ~should_quit
    /\ set_quit
    /\ UNCHANGED <<enqueued, workerVars, mainVars>>

Next == Send \/ Start \/ Quit \/ Worker

Spec == Init /\ [][Next]_vars

\* The number of 'finish' commands enqueued so far.
FinishesSent == Cardinality({i \in 1..Len(enqueued) : enqueued[i] = CmdFinish})

\* The number of 'data' commands enqueued since the last 'start'.
ChunksSent ==
    Cardinality({i \in 1..Len(enqueued) :
                    \A m \in i..Len(enqueued) : enqueued[m][1] = "data"})

\* A producer that records two spans one after the other: 'start', up to
\* MaxSpanLen chunks, 'finish', twice.
SendSpans ==
    /\ \E c \in Cmds :
          /\ IF c = CmdStart
                THEN \/ enqueued = <<>>
                     \/ enqueued # <<>> /\ enqueued[Len(enqueued)] = CmdFinish
                                        /\ FinishesSent < 2
                ELSE /\ enqueued # <<>>
                     /\ enqueued[Len(enqueued)] # CmdFinish
                     /\ c[1] = "data" => ChunksSent < MaxSpanLen
          /\ send_cmd(c)
    /\ UNCHANGED <<should_quit, quitMark, workerVars, mainVars>>

NextSpans == SendSpans \/ Start \/ Worker

SpecSpans == Init /\ [][NextSpans]_vars

\* A producer that calls send_cmd only before the worker has entered its
\* loop: before start() or while run() is still building the engine.
SendEarly ==
    /\ wpc \in {"not_started", "construct"}
    /\ Send

NextEarly == SendEarly \/ Start \/ Quit \/ Worker

SpecEarly == Init /\ [][NextEarly]_vars

\* The worker thread is scheduled fairly and every engine call returns or
\* raises.
FairSpec == Spec /\ WF_vars(Worker)

\* ------------------------------------------------------ Dialog and main

\* Lines 150-152: QApplication and Dialog are built.  Dialog.__init__ calls
\* exit(1) when the input device lacks the 16 kHz 16-bit format (line 104).
main_dialog ==
    /\ mpc = "created"
    /\ \E supported \in BOOLEAN :
          mpc' = IF supported THEN "dialog" ELSE "exited"
    /\ is_recording' = FALSE
    /\ UNCHANGED <<in_queue, should_quit, enqueued, quitMark, workerVars>>

\* Line 155: inference_thread.start().
main_start ==
    /\ mpc = "dialog"
    /\ start
    /\ mpc' = "started"
    /\ UNCHANGED <<in_queue, should_quit, enqueued, quitMark, is_recording>>

\* Line 158: app.exec_() starts dispatching events.
main_exec ==
    /\ mpc = "started"
    /\ mpc' = "exec"
    /\ UNCHANGED <<in_queue, should_quit, enqueued, quitMark, is_recording,
                   workerVars>>

\* A button handler that forgets to flip _is_recording when it stops.
_btn_clicked_stuck ==
    /\ mpc = "exec"
    /\ Budget
    /\ is_recording' = TRUE
    /\ send_cmd(IF is_recording THEN CmdFinish ELSE CmdStart)
    /\ UNCHANGED <<should_quit, quitMark, mpc, workerVars>>

\* Dialog._btn_clicked, run by the event loop: toggle _is_recording and
\* send 'finish' (was recording) or 'start' (was not).
_btn_clicked ==
    /\ mpc = "exec"
    /\ Budget
    /\ is_recording' = ~is_recording
    /\ send_cmd(IF is_recording THEN CmdFinish ELSE CmdStart)
    /\ UNCHANGED <<should_quit, quitMark, mpc, workerVars>>

\* Dialog._read_from_io_device, run by the event loop on readyRead of the
\* device opened by _audio_input.start() and closed by _audio_input.stop().
_read_from_io_device ==
    /\ mpc = "exec"
    /\ is_recording
    /\ Budget
    /\ \E b \in Chunks : send_cmd(CmdData(b))
    /\ UNCHANGED <<should_quit, quitMark, mpc, is_recording, workerVars>>

\* Line 158: app.exec_() returns.
main_exec_return ==
    /\ mpc = "exec"
    /\ mpc' = "after_exec"
    /\ UNCHANGED <<in_queue, should_quit, enqueued, quitMark, is_recording,
                   workerVars>>

\* Line 161: inference_thread.set_quit().
main_set_quit ==
    /\ mpc = "after_exec"
    /\ set_quit
    /\ mpc' = "exiting"
    /\ UNCHANGED <<enqueued, is_recording, workerVars>>

\* Line 163: sys.exit(ret); the interpreter joins the non-daemon worker
\* thread before the process ends.
main_exit ==
    /\ mpc = "exiting"
    /\ Terminated
    /\ mpc' = "exited"
    /\ UNCHANGED <<in_queue, should_quit, enqueued, quitMark, is_recording,
                   workerVars>>

NextApp ==
    \/ main_dialog
    \/ main_start
    \/ main_exec
    \/ _btn_clicked
    \/ _read_from_io_device
    \/ main_exec_return
    \/ main_set_quit
    \/ main_exit
    \/ Worker

SpecApp == Init /\ [][NextApp]_vars

\* ------------------------------------------------------------ properties

\* enqueued[i..j] is Start, AudioChunk*, Finish.
IsSpan(i, j) ==
    /\ i < j
    /\ enqueued[i] = CmdStart
    /\ enqueued[j] = CmdFinish
    /\ \A m \in (i + 1)..(j - 1) : enqueued[m][1] = "data"

\* The sample arrays of the chunks enqueued strictly between i and j.
SpanSamples(i, j) ==
    [m \in 1..(j - i - 1) |-> frombuffer(enqueued[i + m][2])]

\* The notifications emitted while processing the command at position j.
EmittedAt(j) == {k \in 1..Len(emitted) : emitted[k].pos = j}

\* The notifications emitted for handle h.
EmittedFor(h) == {k \in 1..Len(emitted) : emitted[k].h = h}

\* The command at position j of consumed was processed to the end and the
\* loop went on to its next iteration.
Processed(j) ==
    \/ j < Len(consumed)
    \/ j = Len(consumed) /\ wpc \in {"get", "check_quit", "done"}

\* C1: for every Start, AudioChunk(c1..cn), Finish enqueued in that order
\* whose Finish the worker has finalized, the handle finalized is the one
\* created by that Start and the engine was fed exactly c1..cn on it, in
\* order, before the finalization.
C1_SpanFedInOrder ==
    \A i \in 1..Len(enqueued) : \A j \in 1..Len(enqueued) :
        (IsSpan(i, j) /\ EmittedAt(j) # {}) =>
            \A k \in EmittedAt(j) :
                /\ emitted[k].h # None
                /\ startPos[emitted[k].h] = i
                /\ emitted[k].text = SpanSamples(i, j)
                /\ fed[emitted[k].h] = SpanSamples(i, j)

\* A span with two different chunks has been finalized.
C1_Witness ==
    \E k \in 1..Len(emitted) :
        /\ emitted[k].h # None
        /\ Len(emitted[k].text) = 2
        /\ emitted[k].text[1] # emitted[k].text[2]

\* C2: the commands the worker has consumed are a prefix of the commands
\* enqueued, and the queue holds exactly the rest: nothing is consumed
\* that was not enqueued, nothing twice, nothing out of order.
C2_ConsumedIsPrefix ==
    /\ Len(consumed) <= Len(enqueued)
    /\ consumed = SubSeq(enqueued, 1, Len(consumed))
    /\ in_queue = SubSeq(enqueued, Len(consumed) + 1, Len(enqueued))

\* Two different commands were consumed while two more were waiting.
C2_Witness ==
    /\ Len(consumed) >= 2
    /\ consumed[1] # consumed[2]
    /\ Len(in_queue) >= 2
    /\ in_queue[1] # in_queue[2]

\* C3: when the worker takes an AudioChunk from the queue while it holds no
\* stream, it goes straight back to the queue: no engine call is entered,
\* nothing is fed, nothing is emitted, the stream stays None.
C3_IdleChunkDropped ==
    [][(/\ wpc = "get"
        /\ in_queue # <<>>
        /\ Head(in_queue)[1] = "data"
        /\ stream = None
        /\ consumed' # consumed)
       => (/\ wpc' = "get"
           /\ stream' = None
           /\ fed' = fed
           /\ finalized' = finalized
           /\ emitted' = emitted)]_vars

\* A chunk was consumed while idle, before anything else, and the worker
\* is back at the queue with no engine call made.
C3_Witness ==
    /\ Len(consumed) = 1
    /\ consumed[1][1] = "data"
    /\ wpc = "get"
    /\ stream = None
    /\ fed = <<>>
    /\ emitted = <<>>

\* The position of the Finish that ends the span of handle h, if consumed:
\* the first 'start' or 'finish' after h's Start.
SpanEnd(h) ==
    {j \in (startPos[h] + 1)..Len(consumed) :
        /\ consumed[j] = CmdFinish
        /\ \A m \in (startPos[h] + 1)..(j - 1) : consumed[m][1] = "data"}

\* C4: a stream has exactly one notification once its Finish has been
\* processed, emitted while processing that Finish, and none otherwise.
C4_OneNotificationPerSpan ==
    \A h \in 1..Len(fed) :
        /\ Cardinality(EmittedFor(h)) <= 1
        /\ \A k \in EmittedFor(h) : emitted[k].pos \in SpanEnd(h)
        /\ (EmittedFor(h) # {}) <=> (\E j \in SpanEnd(h) : Processed(j))

\* Two spans were completed, one of them without audio, and each has its
\* notification.
C4_Witness ==
    /\ Len(fed) = 2
    /\ finalized = {1, 2}
    /\ EmittedFor(1) # {}
    /\ EmittedFor(2) # {}
    /\ \E h \in 1..2 : fed[h] = <<>>

\* The stream handles the engine has created and not yet finalized.
LiveHandles == (1..Len(fed)) \ finalized

\* C5: at most one stream handle created and not yet finalized exists;
\* while streaming it is the one the worker holds, while idle there is
\* none.
C5_SingleLiveHandle ==
    /\ Cardinality(LiveHandles) <= 1
    /\ stream # None => LiveHandles = {stream}
    /\ stream = None => LiveHandles = {}

\* C6: when the loop has exited through its break, every command that was
\* enqueued before set_quit ran has been consumed and processed.
C6_DrainedBeforeExit ==
    wpc = "done" => (quitMark <= Len(consumed) /\ \A j \in 1..quitMark : Processed(j))

\* C7: once shutdown has been requested the worker thread eventually
\* leaves run().
C7_QuitLeadsToExit == should_quit ~> Terminated

\* Shutdown was requested with commands consumed before it, and the loop
\* exited through its break.
C7_Witness ==
    /\ should_quit
    /\ wpc = "done"
    /\ Len(consumed) >= 2

\* C8: a Finish processed while the worker holds no stream does not end
\* the worker thread.
C8_IdleFinishKeepsRunning ==
    ~(wpc = "crashed" /\ cmd = CmdFinish /\ stream = None)

\* C9: a Feed or Finalize call that fails while the worker holds a stream
\* does not end the worker thread.
C9_EngineFailureCaught ==
    ~(/\ wpc = "crashed"
      /\ stream # None
      /\ \/ cmd = CmdFinish
         \/ cmd[1] = "data" /\ frombuffer_ok(cmd[2]))

\* C10: after engine construction has failed the controller issues no
\* Start and no AudioChunk command.
C10_NoCaptureAfterCtorFailure ==
    [][(wpc = "ctor_failed" /\ enqueued' # enqueued)
       => enqueued'[Len(enqueued')] = CmdFinish]_vars

\* C11: at most one engine stream call is in progress, it is in progress
\* exactly while the worker is inside it, and no step of the producer
\* (send_cmd, set_quit, the main thread) enters or leaves an engine call
\* or changes what the engine holds.
C11_EngineCallsSerialized ==
    /\ [](inCall <= 1 /\ (inCall = 1 <=> wpc = "call"))
    /\ [][(inCall' # inCall \/ fed' # fed \/ finalized' # finalized)
          => (enqueued' = enqueued /\ should_quit' = should_quit /\ mpc' = mpc)]_vars

\* The worker is inside a feed call while the producer has enqueued more
\* commands and requested shutdown.
C11_Witness ==
    /\ inCall = 1
    /\ cmd[1] = "data"
    /\ Len(in_queue) >= 2
    /\ should_quit

\* C13: send_cmd can be taken for every command in every reachable state:
\* put never waits, whatever the worker is doing and however long the
\* queue is.
C13_PushNeverBlocks == \A c \in Cmds : ENABLED send_cmd(c)

\* The worker is inside a feed or finish call, or waiting in get, with
\* commands piled up in the queue.
C13_Witness ==
    /\ Len(in_queue) >= 3
    /\ wpc = "call"
    /\ cmd[1] \in {"data", "finish"}

\* The position of the 'start' that opened the span whose 'finish' is at
\* position j of enqueued: the last 'start' before j.
SpanStart(j) ==
    CHOOSE i \in 0..(j - 1) :
        /\ (i = 0 \/ enqueued[i] = CmdStart)
        /\ \A m \in (i + 1)..(j - 1) : enqueued[m] # CmdStart

\* The buffers of the 'data' commands enqueued between a 'finish' at
\* position j and the 'start' of its span.
SpanChunks(j) ==
    [m \in 1..(j - SpanStart(j) - 1) |-> enqueued[SpanStart(j) + m][2]]

\* C12: two spans that were given the same chunk sequence get the same
\* transcript, whatever was fed in the span before.
C12_SameChunksSameTranscript ==
    \A k1 \in 1..Len(emitted) : \A k2 \in 1..Len(emitted) :
        (/\ emitted[k1].h # None
         /\ emitted[k2].h # None
         /\ SpanChunks(emitted[k1].pos) = SpanChunks(emitted[k2].pos))
        => emitted[k1].text = emitted[k2].text

\* Two spans with the same two different chunks were both finalized.
C12_Witness ==
    /\ Len(emitted) = 2
    /\ emitted[1].h # None
    /\ emitted[2].h # None
    /\ emitted[1].h # emitted[2].h
    /\ Len(emitted[1].text) = 2
    /\ emitted[1].text[1] # emitted[1].text[2]
    /\ SpanChunks(emitted[1].pos) = SpanChunks(emitted[2].pos)

\* C14: the worker thread leaves run() only from the flag check that
\* follows a timed-out get, with the flag set: never while shutdown has
\* not been requested, and never in an iteration that obtained a command.
C14_ExitOnlyAtQuitCheck ==
    [][(~Terminated /\ Terminated' /\ wpc # "construct")
       => (wpc = "check_quit" /\ should_quit /\ wpc' = "done")]_vars

\* C15: a step that sets the shutdown flag changes nothing else of the
\* program: the queue, the worker's position, command and stream, and the
\* engine's state are as before; and a command taken from the queue while
\* the flag is set takes the transition the if/elif chain gives it.
C15_QuitOnlySetsFlag ==
    [][/\ should_quit' # should_quit
          => (/\ should_quit'
              /\ in_queue' = in_queue
              /\ <<wpc, cmd, stream, fed, finalized, emitted, consumed, inCall>>'
                    = <<wpc, cmd, stream, fed, finalized, emitted, consumed, inCall>>)
       /\ (should_quit /\ consumed' # consumed)
          => (/\ wpc' = dispatch(Head(in_queue), stream)
              /\ in_queue' = Tail(in_queue)
              /\ stream' = stream)
       /\ (should_quit /\ wpc = "call" /\ wpc' = "get")
          => (/\ cmd = CmdStart => (stream' = Len(fed) + 1 /\ Len(fed') = Len(fed) + 1)
              /\ cmd[1] = "data" =>
                    (stream' = stream /\ fed'[stream] = Append(fed[stream], frombuffer(cmd[2])))
              /\ cmd = CmdFinish => (stream' = None /\ Len(emitted') = Len(emitted) + 1))]_vars

\* Shutdown was requested after a command had been enqueued, and a span
\* enqueued after the request was still opened, fed and finalized.
C15_Witness ==
    /\ should_quit
    /\ quitMark >= 1
    /\ \E k \in 1..Len(emitted) :
          /\ emitted[k].h # None
          /\ startPos[emitted[k].h] > quitMark
          /\ emitted[k].text # <<>>

\* C16: a handle whose Finish has been processed is no longer the
\* worker's stream, holds exactly what it held when it was finalized (no
\* later Feed) and has been finalized once (no later Finalize).
C16_HandleEndsWithSpan ==
    /\ \A k \in 1..Len(emitted) :
          emitted[k].h # None =>
             /\ stream # emitted[k].h
             /\ fed[emitted[k].h] = emitted[k].text
             /\ Cardinality(EmittedFor(emitted[k].h)) = 1
    /\ \A h \in finalized : EmittedFor(h) # {}

\* A span was finalized and an AudioChunk that came after its Finish, with
\* no Start in between, has been processed.
C16_Witness ==
    \E k \in 1..Len(emitted) :
        /\ emitted[k].h # None
        /\ emitted[k].text # <<>>
        /\ emitted[k].pos < Len(consumed)
        /\ consumed[emitted[k].pos + 1][1] = "data"
        /\ Processed(emitted[k].pos + 1)

\* A 'start' or 'finish' command.
IsControl(c) == c[1] \in {"start", "finish"}

\* The 'start' and 'finish' commands enqueued so far, in order.
ControlSent == SelectSeq(enqueued, IsControl)

\* C17: with the Dialog as the only producer the 'start' and 'finish'
\* commands enqueued alternate, beginning with 'start', and the worker
\* never enters finishStream without a stream nor setupStream with one.
C17_DialogAlternates ==
    /\ \A i \in 1..Len(ControlSent) :
          ControlSent[i] = IF i % 2 = 1 THEN CmdStart ELSE CmdFinish
    /\ (wpc = "call" /\ cmd = CmdFinish) => stream # None
    /\ (wpc = "call" /\ cmd = CmdStart) => stream = None

\* The Dialog recorded one span with audio, it was finalized, and the
\* worker is opening the stream of a second recording.
C17_Witness ==
    /\ finalized = {1}
    /\ fed[1] # <<>>
    /\ wpc = "call"
    /\ cmd = CmdStart
    /\ is_recording

\* C18: nothing is consumed before run() has built the engine, every
\* command enqueued until then is still in the queue, and afterwards the
\* commands are consumed in the order they were enqueued, none missing.
C18_EarlyCommandsKept ==
    /\ wpc \in {"not_started", "construct"} =>
          (consumed = <<>> /\ in_queue = enqueued)
    /\ Len(consumed) + Len(in_queue) = Len(enqueued)
    /\ \A k \in 1..Len(enqueued) :
          IF k <= Len(consumed) THEN consumed[k] = enqueued[k]
          ELSE in_queue[k - Len(consumed)] = enqueued[k]

\* Commands enqueued before the loop ran, some of them before start(),
\* have all been consumed, in order, and a span among them was finalized.
C18_Witness ==
    /\ Len(enqueued) >= 3
    /\ consumed = enqueued
    /\ \E k \in 1..Len(emitted) : emitted[k].h # None /\ emitted[k].text # <<>>

\* The 'data' commands consumed directly after position i of consumed.
DataRun(i) ==
    {j \in (i + 1)..Len(consumed) :
        \A m \in (i + 1)..j : consumed[m][1] = "data"}

\* Handle h was replaced: a 'start' was processed while h was the stream.
Replaced(h) ==
    /\ h < Len(fed)
    /\ consumed[startPos[h + 1]] = CmdStart
    /\ startPos[h + 1] = startPos[h] + Cardinality(DataRun(startPos[h])) + 1

\* C19: every handle is fed only chunks consumed between its own 'start'
\* and the next 'start' or 'finish', in order; the worker's stream, if
\* any, is the newest handle; a replaced handle is never finalized and
\* gets no notification.
C19_StartWhileStreamingReplaces ==
    /\ stream # None => stream = Len(fed)
    /\ \A h \in 1..Len(fed) :
          /\ Len(fed[h]) <= Cardinality(DataRun(startPos[h]))
          /\ \A m \in 1..Len(fed[h]) :
                fed[h][m] = frombuffer(consumed[startPos[h] + m][2])
          /\ Replaced(h) => (h \notin finalized /\ EmittedFor(h) = {})
          /\ \A k \in EmittedFor(h) :
                emitted[k].pos = startPos[h] + Cardinality(DataRun(startPos[h])) + 1

\* A second 'start' arrived while streaming; a chunk went to one of the
\* two handles and the Finish finalized the new handle only.
C19_Witness ==
    /\ Len(fed) = 2
    /\ Replaced(1)
    /\ finalized = {2}
    /\ EmittedFor(2) # {}
    /\ fed[1] # <<>> \/ fed[2] # <<>>

TypeOK ==
    /\ wpc \in {"not_started", "construct", "get", "check_quit", "call",
                "done", "crashed", "ctor_failed"}
    /\ should_quit \in BOOLEAN
    /\ stream \in 0..Len(fed)
    /\ finalized \subseteq 1..Len(fed)
====
